---- MODULE Spec2Model ----
(***************************************************************************)
(* Task dispatch and escrow engine of the Rozdum task marketplace.         *)
(*                                                                         *)
(* The state is the content of the shared SQLite database (users, tasks,   *)
(* task_offers, disputes), the timer registry of the main bot and the      *)
(* position of the main bot's handler that is suspended at an await.       *)
(* Handlers of one bot run on one asyncio event loop, so the code between  *)
(* two awaits is one step.  The database is taken to carry every column    *)
(* the queries name (dispute_id, admin_id, completed_tasks).               *)
(*                                                                         *)
(* Money is in whole hryvnias; ratings are in tenths (45 is 4.5).          *)
(***************************************************************************)
EXTENDS Integers, Sequences, FiniteSets, TLC

\* ------------------------------------------------------------------ bounds
MaxTasks == 1
MaxOffers == 2
MaxDisputes == 1
MaxTransfers == 2
\* the tasks and offers of a run with the single executor
SoloMaxTasks == 3
SoloMaxOffers == 3
\* the times the UPDATE that credits the executor fails for one task
MaxCreditFailures == 2

\* ------------------------------------------------------- program constants
VIP_TASK_PRICE_LOW == 10
VIP_TASK_PRICE_HIGH == 15
VIP_TASK_THRESHOLD == 100
VIP_EXECUTOR_MIN_RATING == 40
MinMatchPercent == 70
MinRealUserId == 100000
MinWithdrawal == 100
\* the miss count at which the timeout handler switches the executor off
MissedTasksThreshold == 3

\* the payment without the platform's commission
ExecutorPayment_no_commission(price) == price

\* PLATFORM_COMMISSION_RATE = 0.10: the executor receives price * (1 - 0.10)
ExecutorPayment(price) == (price * 9) \div 10

\* --------------------------------------------------------- the population
NULL == 0
Customer1 == MinRealUserId + 1
Executor1 == MinRealUserId + 2
Executor2 == MinRealUserId + 3
Executor3 == MinRealUserId + 4
BlockedExecutor == MinRealUserId + 5
AdminId == MinRealUserId + 9
\* the rows of the users table at start, and the same with one more executor
RegisteredUsers == {Customer1, Executor1, Executor2, BlockedExecutor}
ExecutorPool == RegisteredUsers \cup {Executor3}
\* one customer and the one executor eligible for the customer's VIP tasks
SoloUsers == {Customer1, Executor1}
\* one customer, one executor and the blocked executor
FairUsers == {Customer1, Executor1, BlockedExecutor}
Customers == {Customer1}
\* the rows with is_admin = 1
Admins == {AdminId}
\* the users who switch their work status in the profile
WorkStatusUsers == {Executor1}
InitialBalance == 110
\* task prices: one the customer can pay, one above every balance reached
Prices == {100, 500}
TagChoices == {{1}, 1..10}
WithdrawalAmounts == {100}

\* users.executor_tags for the one category of the model; {} is "no tags"
ExecutorTags(u) ==
    CASE u = Executor1 -> 1..9
      [] u = Executor2 -> {1, 11}
      [] u = Executor3 -> 1..10
      [] u = BlockedExecutor -> 1..10
      [] OTHER -> {}

\* users.rating, in tenths
Rating(u) ==
    CASE u = Executor1 -> 45
      [] u = Executor2 -> 35
      [] u = Executor3 -> 38
      [] u = BlockedExecutor -> 50
      [] OTHER -> 50

\* users.completed_tasks and users.is_blocked are never written by the engine
CompletedTasks(u) == 0
IsBlocked(u) == u = BlockedExecutor

\* users.username: the row the bots write at start is @fezerstop's
Username(u) == IF u = AdminId THEN "fezerstop" ELSE "user"

\* is_admin of the admin bot: the built-in id, then the caller's own row,
\* then any row of an admin whose username is fezerstop, whoever the caller
is_admin(u) ==
    IF u = AdminId THEN TRUE
    ELSE IF u \in Admins THEN TRUE
    ELSE \E a \in Admins : Username(a) = "fezerstop"

\* the keys of a row returned by get_available_executors, with the keys
\* find_and_notify_executor adds to it
ExecutorRowKeys ==
    {"user_id", "username", "executor_tags", "rating", "completed_tasks",
     "is_working", "missed_tasks_count", "active_tasks", "matching_tags_count",
     "match_percentage", "category_tags", "matching_tags", "priority"}

VARIABLES
    users,          \* user_id -> balance, frozen_balance, earned_balance,
                    \*            missed_tasks_count, is_working
    tasks,          \* sequence of task rows; task_id is the index
    task_offers,    \* set of offer rows
    next_offer_id,  \* AUTOINCREMENT of task_offers
    lapsed_upto,    \* offers with offer_id <= lapsed_upto have expires_at < now
    disputes,       \* sequence of dispute rows; dispute_id is the index
    active_timers,  \* task_id -> executor_id of the armed acceptance timer
    main_pc,        \* the main bot's handler suspended at an await, if any
    escrow,         \* history: per task, amount still frozen for it and the
                    \* number of payouts and refunds applied to it
    timed_out,      \* history: the <<task_id, executor_id>> of the offers
                    \* that were deleted after passing expires_at
    timeout_streak  \* history: user_id -> offers of the user that timed out
                    \* since the user last accepted one or switched to working

vars == <<users, tasks, task_offers, next_offer_id, lapsed_upto, disputes,
          active_timers, main_pc, escrow, timed_out, timeout_streak>>

UserIds == DOMAIN users
TaskIds == 1..Len(tasks)
DisputeIds == 1..Len(disputes)
\* the number of payouts and refunds applied so far, over all tasks
RECURSIVE Transfers(_, _)
Transfers(es, n) ==
    IF n = 0 THEN 0 ELSE es[n].payouts + es[n].refunds + Transfers(es, n - 1)

Idle == [kind |-> "idle", task |-> NULL, user |-> NULL, todo |-> <<>>]

\* the database after init_database with the users in U registered
InitWith(U) ==
    /\ users = [u \in U |->
                  [balance |-> IF u \in Customers THEN InitialBalance ELSE 0,
                   frozen_balance |-> 0,
                   earned_balance |-> 0,
                   missed_tasks_count |-> 0,
                   is_working |-> TRUE]]
    /\ tasks = <<>>
    /\ task_offers = {}
    /\ next_offer_id = 1
    /\ lapsed_upto = 0
    /\ disputes = <<>>
    /\ active_timers = <<>>
    /\ main_pc = Idle
    /\ escrow = <<>>
    /\ timed_out = {}
    /\ timeout_streak = [u \in U |-> 0]

Init == InitWith(RegisteredUsers)
InitPool == InitWith(ExecutorPool)
InitSolo == InitWith(SoloUsers)
InitFair == InitWith(FairUsers)

\* ------------------------------------------------------------ database.py
\* update_user_balance: one UPDATE adding both deltas
update_user_balance(us, u, balance_change, frozen_change) ==
    [us EXCEPT ![u].balance = @ + balance_change,
               ![u].frozen_balance = @ + frozen_change]

\* update_task(task_id, **kwargs) for the fields the engine writes
update_task_status(ts, t, st) == [ts EXCEPT ![t].status = st]
update_task_status_executor(ts, t, st, e) ==
    [ts EXCEPT ![t].status = st, ![t].executor_id = e]

Lapsed(o, upto) == o.offer_id <= upto

\* create_task_offer: refuses when the pair already has a pending offer
HasPendingOfferFor(os, t, e) ==
    \E o \in os : o.task_id = t /\ o.executor_id = e /\ o.status = "pending"

create_task_offer(os, oid, t, e) ==
    IF HasPendingOfferFor(os, t, e)
    THEN os
    ELSE os \cup {[offer_id |-> oid, task_id |-> t, executor_id |-> e,
                   status |-> "pending"]}

\* get_task_offer: the pending offer of the pair that has not yet expired
get_task_offer(os, upto, t, e) ==
    {o \in os : o.task_id = t /\ o.executor_id = e /\ o.status = "pending"
                /\ ~Lapsed(o, upto)}

\* update_task_offer_status: every offer of the pair, whatever its status
update_task_offer_status(os, t, e, st) ==
    {IF o.task_id = t /\ o.executor_id = e THEN [o EXCEPT !.status = st] ELSE o
     : o \in os}

\* reject_task_offer without the executor in its WHERE clause
reject_task_offer_whole_task(os, t, e) ==
    {IF o.task_id = t /\ o.status = "pending"
     THEN [o EXCEPT !.status = "rejected"] ELSE o : o \in os}

\* reject_task_offer: the pending offers of the pair become rejected
reject_task_offer(os, t, e) ==
    {IF o.task_id = t /\ o.executor_id = e /\ o.status = "pending"
     THEN [o EXCEPT !.status = "rejected"] ELSE o : o \in os}

\* get_declined_executors_for_task reading a status no offer ever has
get_declined_executors_for_task_declined(os, t) ==
    {o.executor_id : o \in {x \in os : x.task_id = t /\ x.status = "declined"}}

\* get_declined_executors_for_task
get_declined_executors_for_task(os, t) ==
    {o.executor_id : o \in {x \in os : x.task_id = t /\ x.status = "rejected"}}

\* a miss that also costs the executor one unit of balance
increment_missed_tasks_with_penalty(us, u) ==
    [us EXCEPT ![u].missed_tasks_count = @ + 1, ![u].balance = @ - 1]
\* increment_missed_tasks
increment_missed_tasks(us, u) == [us EXCEPT ![u].missed_tasks_count = @ + 1]
\* reset_missed_tasks writing nothing
reset_missed_tasks_nothing(us, u) == us
reset_missed_tasks(us, u) == [us EXCEPT ![u].missed_tasks_count = 0]
set_work_status(us, u, w) == [us EXCEPT ![u].is_working = w]

\* ---------------------------------------------------------------- Matcher
\* find_matching_tags, for tags that have no translation entry
find_matching_tags(task_tags, executor_tags) == task_tags \cap executor_tags

\* match_percentage of get_available_executors, in percent
match_percentage(task_tags, u) ==
    IF task_tags = {} THEN 0
    ELSE (100 * Cardinality(find_matching_tags(task_tags, ExecutorTags(u))))
            \div Cardinality(task_tags)

\* get_available_executors without is_blocked in its WHERE clause
get_available_executors_blocked_too(us, os, upto, task_tags, min_rating) ==
    {u \in DOMAIN us :
        /\ Rating(u) >= min_rating
        /\ ExecutorTags(u) # {}
        /\ us[u].is_working
        /\ u >= MinRealUserId
        /\ ~\E o \in os : o.executor_id = u /\ o.status = "pending"
                          /\ ~Lapsed(o, upto)
        /\ match_percentage(task_tags, u) >= MinMatchPercent}

\* get_available_executors without the exclusion of the executors who hold a
\* pending offer
get_available_executors_busy_too(us, os, upto, task_tags, min_rating) ==
    {u \in DOMAIN us :
        /\ Rating(u) >= min_rating
        /\ ExecutorTags(u) # {}
        /\ us[u].is_working
        /\ ~IsBlocked(u)
        /\ u >= MinRealUserId
        /\ match_percentage(task_tags, u) >= MinMatchPercent}

\* get_available_executors: the user_ids of the rows it returns
get_available_executors(us, os, upto, task_tags, min_rating) ==
    {u \in DOMAIN us :
        /\ Rating(u) >= min_rating
        /\ ExecutorTags(u) # {}
        /\ us[u].is_working
        /\ ~IsBlocked(u)
        /\ u >= MinRealUserId
        /\ ~\E o \in os : o.executor_id = u /\ o.status = "pending"
                          /\ ~Lapsed(o, upto)
        /\ match_percentage(task_tags, u) >= MinMatchPercent}

Min2(a, b) == IF a < b THEN a ELSE b
Max2(a, b) == IF a > b THEN a ELSE b

\* calculate_executor_priority, times 8000 (0.4 -> 3200, 0.05 -> 400)
calculate_executor_priority(u, task_tags) ==
    LET category_tags == ExecutorTags(u)
        matching == task_tags \cap category_tags
        tag_score ==
            IF task_tags = {} \/ category_tags = {} THEN 320
            ELSE IF matching = task_tags
                 THEN 3200 + Min2(160 * Cardinality(category_tags \ task_tags), 640)
                 ELSE (3200 * Cardinality(matching)) \div Cardinality(task_tags)
        rating_score == 100 * (Rating(u) - 10)
        experience_bonus == Min2(400 * CompletedTasks(u), 2400)
    IN  Max2(tag_score + rating_score + experience_bonus, 800)

\* the candidates left after the filters of find_and_notify_executor
real_executors(us, ts, os, upto, t, exclude_executor) ==
    LET min_rating == IF ts[t].is_vip THEN VIP_EXECUTOR_MIN_RATING ELSE 0
    IN  {u \in get_available_executors(us, os, upto, ts[t].tags, min_rating) :
            /\ u # exclude_executor
            /\ u # ts[t].customer_id
            /\ u \notin get_declined_executors_for_task(os, t)
            /\ u > MinRealUserId
            /\ us[u].is_working}

\* available_executors[0] after the two sorts: highest priority, then highest
\* (match_percentage, rating), then row order
SortsBefore(a, b, task_tags) ==
    LET pa == calculate_executor_priority(a, task_tags)
        pb == calculate_executor_priority(b, task_tags)
        ma == match_percentage(task_tags, a)
        mb == match_percentage(task_tags, b)
    IN  \/ pa > pb
        \/ pa = pb /\ ma > mb
        \/ pa = pb /\ ma = mb /\ Rating(a) > Rating(b)
        \/ pa = pb /\ ma = mb /\ Rating(a) = Rating(b) /\ a <= b

best_executor(cands, task_tags) ==
    CHOOSE a \in cands : \A b \in cands : SortsBefore(a, b, task_tags)

\* the 90-100% check: the search is put off and a tag is suggested instead
near_miss(cands, task_tags) ==
    LET best == match_percentage(task_tags, best_executor(cands, task_tags))
    IN  90 <= best /\ best < 100

\* selectable_executors without the 90-100% check
selectable_executors_no_near_miss(us, ts, os, upto, t, exclude_executor) ==
    IF t \notin 1..Len(ts) \/ ts[t].status # "searching" THEN {}
    ELSE real_executors(us, ts, os, upto, t, exclude_executor)

\* the executors random.choice can return; {} when no offer will be made
selectable_executors(us, ts, os, upto, t, exclude_executor) ==
    IF t \notin 1..Len(ts) \/ ts[t].status # "searching" THEN {}
    ELSE LET cands == real_executors(us, ts, os, upto, t, exclude_executor)
         IN  IF cands = {} \/ near_miss(cands, ts[t].tags) THEN {} ELSE cands

\* send_task_offer(bot, executor_id, task) as far as its first write: it reads
\* task['price'] of the row it is handed and raises when the row has no such
\* key; the handler of that exception reads task['task_id'] and raises again
send_task_offer(us, executor_id, row_keys) ==
    IF ~us[executor_id].is_working THEN "not_available"
    ELSE IF "price" \notin row_keys THEN "raised"
    ELSE "sent"

\* find_and_notify_executor once random.choice has returned selected: the
\* offer row, and on a sent notification the status write and the timer
find_and_notify_executor(us, ts, os, oid, tmrs, t, selected) ==
    LET created == ~HasPendingOfferFor(os, t, selected)
        os2 == create_task_offer(os, oid, t, selected)
        sent == created /\ send_task_offer(us, selected, ExecutorRowKeys) = "sent"
    IN  [task_offers |-> os2,
         next_offer_id |-> IF created THEN oid + 1 ELSE oid,
         tasks |-> IF sent
                   THEN update_task_status_executor(ts, t, "offered", selected)
                   ELSE ts,
         active_timers |-> IF sent THEN (t :> selected) @@ tmrs ELSE tmrs]

\* ------------------------------------------------------- handlers/tasks.py
\* calculate_total_cost without the VIP surcharge
calculate_total_cost_no_vip(price, is_vip) == price

calculate_total_cost(price, is_vip) ==
    price + (IF is_vip
             THEN (IF price <= VIP_TASK_THRESHOLD THEN VIP_TASK_PRICE_LOW
                   ELSE VIP_TASK_PRICE_HIGH)
             ELSE 0)

\* the offers made in a run of the model: MaxOffers, and one more for each
\* user registered beyond RegisteredUsers; SoloMaxOffers for the single
\* executor
OfferCap ==
    IF UserIds = SoloUsers THEN SoloMaxOffers
    ELSE MaxOffers + Cardinality(UserIds \ RegisteredUsers)

\* the users who press the admin bot's buttons: the admin, and in the runs
\* with another population the customer as well (what the handlers write
\* differs between callers only in disputes.admin_id)
AdminBotCallers ==
    IF UserIds = RegisteredUsers THEN Admins ELSE Admins \cup Customers

\* what update_user_balance returns for the credit of task t's executor: True,
\* and in the runs with the executor pool also False, the UPDATE having raised
\* (the three bots are separate processes writing one SQLite file)
CreditOutcomes(t) ==
    IF UserIds = ExecutorPool /\ escrow[t].failed_credits < MaxCreditFailures
    THEN {TRUE, FALSE}
    ELSE {TRUE}

\* the tasks created in a run of the model
TaskCap == IF UserIds = SoloUsers THEN SoloMaxTasks ELSE MaxTasks

\* one run of find_and_notify_executor(t, exclude_executor) on users us and
\* tasks ts: it writes the offer table, the task row and the timer registry
Dispatch(us, ts, t, exclude_executor) ==
    LET sel == selectable_executors(us, ts, task_offers, lapsed_upto, t,
                                    exclude_executor)
    IN  IF sel = {}
        THEN /\ tasks' = ts
             /\ UNCHANGED <<task_offers, next_offer_id, active_timers>>
        ELSE \E selected \in sel :
                /\ next_offer_id <= OfferCap
                /\ LET r == find_and_notify_executor(us, ts, task_offers,
                             next_offer_id, active_timers, t, selected)
                   IN  /\ tasks' = r.tasks
                       /\ task_offers' = r.task_offers
                       /\ next_offer_id' = r.next_offer_id
                       /\ active_timers' = r.active_timers

\* create_task_final: freeze the total cost, insert the task, start the
\* search; created is whether the INSERT of create_task succeeds, and when it
\* does not the freeze is rolled back
create_task_final(c, price, is_vip, tags, created) ==
    LET total_cost == calculate_total_cost(price, is_vip)
        us == update_user_balance(users, c, -total_cost, total_cost)
        ts == Append(tasks, [customer_id |-> c, executor_id |-> NULL,
                             status |-> "searching", price |-> price,
                             is_vip |-> is_vip, tags |-> tags])
    IN  /\ main_pc = Idle
        /\ Len(tasks) < TaskCap
        /\ users[c].balance >= total_cost
        /\ IF created
           THEN /\ users' = us
                /\ escrow' = Append(escrow, [frozen |-> total_cost,
                                             payouts |-> 0, refunds |-> 0,
                                             failed_credits |-> 0])
                /\ Dispatch(us, ts, Len(ts), NULL)
           ELSE /\ users' = update_user_balance(us, c, total_cost, -total_cost)
                /\ UNCHANGED <<tasks, task_offers, next_offer_id,
                               active_timers, escrow>>
        /\ UNCHANGED <<lapsed_upto, disputes, main_pc, timed_out,
                       timeout_streak>>

\* manual_search_executors: the owner's searching tasks, newest first, are
\* searched one by one with an await before each
SearchingTasksOf(c) ==
    {t \in TaskIds : tasks[t].customer_id = c /\ tasks[t].status = "searching"}

RECURSIVE NewestFirst(_)
NewestFirst(S) ==
    IF S = {} THEN <<>>
    ELSE LET m == CHOOSE x \in S : \A y \in S : y <= x
         IN  <<m>> \o NewestFirst(S \ {m})

manual_search_executors(c) ==
    /\ main_pc = Idle
    /\ SearchingTasksOf(c) # {}
    /\ main_pc' = [kind |-> "manual_search", task |-> NULL, user |-> c,
                   todo |-> NewestFirst(SearchingTasksOf(c))]
    /\ UNCHANGED <<users, tasks, task_offers, next_offer_id, lapsed_upto,
                   disputes, active_timers, escrow, timed_out,
                   timeout_streak>>

manual_search_step ==
    /\ main_pc.kind = "manual_search"
    /\ Dispatch(users, tasks, Head(main_pc.todo), NULL)
    /\ main_pc' = IF Tail(main_pc.todo) = <<>> THEN Idle
                  ELSE [main_pc EXCEPT !.todo = Tail(@)]
    /\ UNCHANGED <<users, lapsed_upto, disputes, escrow,
                   timed_out, timeout_streak>>

\* cleanup_suggestion_and_reassign: the background task a skipped tag
\* suggestion starts; after its sleep it searches for the task once more
cleanup_suggestion_and_reassign(t) ==
    /\ t \in TaskIds
    /\ selectable_executors(users, tasks, task_offers, lapsed_upto, t, NULL) # {}
    /\ Dispatch(users, tasks, t, NULL)
    /\ UNCHANGED <<users, lapsed_upto, disputes, main_pc, escrow, timed_out,
                   timeout_streak>>

\* ---------------------------------------------------- handlers/executor.py
\* handle_task_offer without its check of the task status
CanRespond_any_status(t, e) ==
    /\ main_pc = Idle
    /\ t \in TaskIds
    /\ get_task_offer(task_offers, lapsed_upto, t, e) # {}

\* handle_task_offer up to its branch on the action: the task is searching
\* or offered and the pair has a pending offer that has not expired
CanRespond(t, e) ==
    /\ main_pc = Idle
    /\ t \in TaskIds
    /\ tasks[t].status \in {"searching", "offered"}
    /\ get_task_offer(task_offers, lapsed_upto, t, e) # {}

\* accept_task_offer cancelling the task's other offers whatever their status
accept_task_offer_offers_any_status(os, t, e) ==
    {IF o.task_id = t
     THEN [o EXCEPT !.status = IF o.executor_id = e THEN "accepted"
                               ELSE "cancelled"]
     ELSE o : o \in os}

\* accept_task_offer: the pair's pending offer is accepted, the task is taken
\* if it reads searching, the task's other pending offers are cancelled
accept_task_offer_offers(os, t, e) ==
    {IF o.task_id = t /\ o.status = "pending"
     THEN [o EXCEPT !.status = IF o.executor_id = e THEN "accepted"
                               ELSE "cancelled"]
     ELSE o : o \in os}

accept_task_offer_tasks(ts, t, e) ==
    IF ts[t].status = "searching"
    THEN update_task_status_executor(ts, t, "in_progress", e)
    ELSE ts

\* TaskTimer.cancel_timer
cancel_timer(tmrs, t) == [x \in DOMAIN tmrs \ {t} |-> tmrs[x]]

\* handle_task_offer, action "accept"
handle_task_offer_accept(t, e) ==
    /\ CanRespond(t, e)
    /\ tasks' = accept_task_offer_tasks(tasks, t, e)
    /\ task_offers' = update_task_offer_status(
                          accept_task_offer_offers(task_offers, t, e),
                          t, e, "accepted")
    /\ active_timers' = cancel_timer(active_timers, t)
    /\ users' = reset_missed_tasks(users, e)
    /\ timeout_streak' = [timeout_streak EXCEPT ![e] = 0]
    /\ UNCHANGED <<next_offer_id, lapsed_upto, disputes, main_pc, escrow,
                   timed_out>>

\* handle_task_offer, action "decline", up to the await that precedes the
\* new search
handle_task_offer_decline(t, e) ==
    /\ CanRespond(t, e)
    /\ active_timers' = cancel_timer(active_timers, t)
    /\ task_offers' = reject_task_offer(task_offers, t, e)
    /\ users' = increment_missed_tasks(users, e)
    /\ tasks' = update_task_status_executor(tasks, t, "searching", NULL)
    /\ main_pc' = [kind |-> "decline", task |-> t, user |-> e, todo |-> <<>>]
    /\ UNCHANGED <<next_offer_id, lapsed_upto, disputes, escrow,
                   timed_out, timeout_streak>>

\* handle_task_offer, action "decline": the search for the next executor
decline_redispatch ==
    /\ main_pc.kind = "decline"
    /\ Dispatch(users, tasks, main_pc.task, main_pc.user)
    /\ main_pc' = Idle
    /\ UNCHANGED <<users, lapsed_upto, disputes, escrow,
                   timed_out, timeout_streak>>

\* complete_task: the assigned executor reports completion
complete_task(e, t) ==
    /\ main_pc = Idle
    /\ t \in TaskIds
    /\ tasks[t].executor_id = e
    /\ tasks[t].status = "in_progress"
    /\ tasks' = update_task_status(tasks, t, "pending_approval")
    /\ UNCHANGED <<users, task_offers, next_offer_id, lapsed_upto, disputes,
                   active_timers, main_pc, escrow, timed_out,
                   timeout_streak>>

\* approve_task_completion: pay the executor, release the frozen total, and
\* mark the task completed if the payment succeeded
approve_task_completion(c, t) ==
    /\ main_pc = Idle
    /\ t \in TaskIds
    /\ tasks[t].customer_id = c
    /\ tasks[t].status = "pending_approval"
    /\ \E success \in CreditOutcomes(t) :
         LET executor_payment == ExecutorPayment(tasks[t].price)
             frozen_amount ==
                 calculate_total_cost(tasks[t].price, tasks[t].is_vip)
         IN  /\ users' = update_user_balance(
                             IF success
                             THEN update_user_balance(users,
                                      tasks[t].executor_id, executor_payment, 0)
                             ELSE users,
                             c, 0, -frozen_amount)
             /\ escrow' = IF success
                          THEN [escrow EXCEPT ![t].frozen = @ - frozen_amount,
                                              ![t].payouts = @ + 1]
                          ELSE [escrow EXCEPT ![t].frozen = @ - frozen_amount,
                                              ![t].failed_credits = @ + 1]
             /\ tasks' = IF success
                         THEN update_task_status(tasks, t, "completed")
                         ELSE tasks
    /\ UNCHANGED <<task_offers, next_offer_id, lapsed_upto, disputes,
                   active_timers, main_pc, timed_out,
                   timeout_streak>>

\* create_dispute
create_dispute(ds, t, c, e) ==
    Append(ds, [task_id |-> t, customer_id |-> c, executor_id |-> e,
                status |-> "open", resolution |-> "none", admin_id |-> NULL])

\* dispute_task: the owner disputes a task that is completed or in progress
dispute_task(c, t) ==
    /\ main_pc = Idle
    /\ t \in TaskIds
    /\ tasks[t].customer_id = c
    /\ tasks[t].status \in {"completed", "in_progress"}
    /\ Len(disputes) < MaxDisputes
    /\ disputes' = create_dispute(disputes, t, c, tasks[t].executor_id)
    /\ tasks' = update_task_status(tasks, t, "dispute")
    /\ UNCHANGED <<users, task_offers, next_offer_id, lapsed_upto,
                   active_timers, main_pc, escrow, timed_out,
                   timeout_streak>>

\* cancel_task after its checks: the status write and the refund of the price
\* and the VIP surcharge
cancel_task_refund(c, t) ==
    /\ tasks' = update_task_status(tasks, t, "canceled")
    /\ LET refund_amount == calculate_total_cost(tasks[t].price, tasks[t].is_vip)
       IN  /\ users' = update_user_balance(users, c, refund_amount, -refund_amount)
           /\ escrow' = [escrow EXCEPT ![t].frozen = @ - refund_amount,
                                       ![t].refunds = @ + 1]
    /\ UNCHANGED <<task_offers, next_offer_id, lapsed_upto, disputes,
                   active_timers, main_pc, timed_out, timeout_streak>>

\* cancel_task without its check of the task status
cancel_task_any_status(c, t) ==
    /\ main_pc = Idle
    /\ t \in TaskIds
    /\ tasks[t].customer_id = c
    /\ cancel_task_refund(c, t)

\* cancel_task: the owner cancels a searching task and is refunded
cancel_task(c, t) ==
    /\ main_pc = Idle
    /\ t \in TaskIds
    /\ tasks[t].customer_id = c
    /\ tasks[t].status = "searching"
    /\ cancel_task_refund(c, t)

\* ----------------------------------------------------- handlers/profile.py
\* set_work_status_handler: switching to working also clears the miss counter
set_work_status_handler(u, working) ==
    /\ main_pc = Idle
    /\ users' = IF working
                THEN reset_missed_tasks(set_work_status(users, u, TRUE), u)
                ELSE set_work_status(users, u, FALSE)
    /\ timeout_streak' = IF working THEN [timeout_streak EXCEPT ![u] = 0]
                         ELSE timeout_streak
    /\ UNCHANGED <<tasks, task_offers, next_offer_id, lapsed_upto, disputes,
                   active_timers, main_pc, escrow, timed_out>>

\* ---------------------------------------------------- handlers/financial.py
\* process_withdrawal_amount and process_withdrawal: an amount of at least
\* MinWithdrawal that the earned balance covers leaves both the balance and
\* the earned balance; the simulated transfer that follows always succeeds
process_withdrawal(u, amount) ==
    /\ main_pc = Idle
    /\ amount >= MinWithdrawal
    /\ users[u].earned_balance >= amount
    /\ users' = [update_user_balance(users, u, -amount, 0)
                 EXCEPT ![u].earned_balance = @ - amount]
    /\ UNCHANGED <<tasks, task_offers, next_offer_id, lapsed_upto, disputes,
                   active_timers, main_pc, escrow, timed_out, timeout_streak>>

\* ------------------------------------------------ utils/task_scheduler.py
\* time passes until a pending offer reaches its expires_at (of an offer
\* that is no longer pending the code never reads expires_at); offers expire
\* in the order they were made, as each lives for the same 30 minutes
Tick ==
    /\ \E o \in task_offers :
          /\ o.status = "pending"
          /\ ~Lapsed(o, lapsed_upto)
          /\ lapsed_upto' = o.offer_id
    /\ UNCHANGED <<users, tasks, task_offers, next_offer_id, disputes,
                   active_timers, main_pc, escrow, timed_out,
                   timeout_streak>>

\* the expired offers without the status in the WHERE clause
ExpiredOffers_any_status(os, upto) == {o \in os : Lapsed(o, upto)}

\* the expired offers of a clean-up that finds none
ExpiredOffers_none(os, upto) == {}

\* cleanup_expired_offers: pending offers past expires_at are deleted; a task
\* left without pending offer goes back to searching if it reads offered
ExpiredOffers(os, upto) == {o \in os : o.status = "pending" /\ Lapsed(o, upto)}

cleanup_expired_offers_offers(os, upto) == os \ ExpiredOffers(os, upto)

cleanup_expired_offers_tasks(ts, os, upto) ==
    LET expired_task_ids == {o.task_id : o \in ExpiredOffers(os, upto)}
        remaining == cleanup_expired_offers_offers(os, upto)
        reset == {t \in DOMAIN ts :
                    /\ t \in expired_task_ids
                    /\ ~\E o \in remaining : o.task_id = t /\ o.status = "pending"
                    /\ ts[t].status = "offered"}
    IN  IF reset = {} THEN ts
        ELSE [t \in DOMAIN ts |->
                IF t \in reset
                THEN [ts[t] EXCEPT !.status = "searching", !.executor_id = NULL]
                ELSE ts[t]]

\* TaskScheduler._process_waiting_tasks: the clean-up; the search queue it
\* then reads is never filled, so it searches for no task
process_waiting_tasks ==
    /\ ExpiredOffers(task_offers, lapsed_upto) # {}
    /\ task_offers' = cleanup_expired_offers_offers(task_offers, lapsed_upto)
    /\ tasks' = cleanup_expired_offers_tasks(tasks, task_offers, lapsed_upto)
    /\ timed_out' = timed_out \cup
           {<<o.task_id, o.executor_id>> : o \in ExpiredOffers(task_offers,
                                                              lapsed_upto)}
    /\ timeout_streak' =
           [u \in DOMAIN timeout_streak |->
               timeout_streak[u]
                   + Cardinality({o \in ExpiredOffers(task_offers, lapsed_upto) :
                                     o.executor_id = u})]
    /\ UNCHANGED <<users, next_offer_id, lapsed_upto, disputes, active_timers,
                   main_pc, escrow>>

\* ------------------------------------------- admin_bot/dispute_handlers.py
\* database.resolve_dispute: the UPDATE has no condition on the status
resolve_dispute(ds, d, resolution, admin_id) ==
    [ds EXCEPT ![d].status = "resolved", ![d].resolution = resolution,
               ![d].admin_id = admin_id]

\* resolve_dispute_handler: the dispute is resolved, then task['price'] is
\* moved: back to the customer, or 90% of it to the executor
resolve_dispute_handler(d, resolution, admin_id) ==
    /\ is_admin(admin_id)
    /\ d \in DisputeIds
    /\ LET dispute == disputes[d]
           t == dispute.task_id
           price == tasks[t].price
           executor_payment == ExecutorPayment(price)
       IN  /\ Transfers(escrow, Len(escrow)) < MaxTransfers
           /\ disputes' = resolve_dispute(disputes, d, resolution, admin_id)
           /\ \/ /\ resolution = "customer"
                 /\ users' = update_user_balance(users, dispute.customer_id,
                                                 price, -price)
                 /\ tasks' = update_task_status(tasks, t, "cancelled")
                 /\ escrow' = [escrow EXCEPT ![t].frozen = @ - price,
                                             ![t].refunds = @ + 1]
              \/ /\ resolution = "executor"
                 /\ users' = [update_user_balance(
                                  update_user_balance(users, dispute.customer_id,
                                                      0, -price),
                                  dispute.executor_id, executor_payment, 0)
                              EXCEPT ![dispute.executor_id].earned_balance =
                                         @ + executor_payment]
                 /\ tasks' = update_task_status(tasks, t, "completed")
                 /\ escrow' = [escrow EXCEPT ![t].frozen = @ - price,
                                             ![t].payouts = @ + 1]
    /\ UNCHANGED <<task_offers, next_offer_id, lapsed_upto, active_timers,
                   main_pc, timed_out,
                   timeout_streak>>

\* ------------------------------------------------------- chat_bot/main.py
\* callback complete_task_<id>, a button of the chat that is opened when the
\* task is accepted: the status is written whatever it was
chat_complete_task(t) ==
    /\ t \in TaskIds
    /\ tasks[t].executor_id # NULL
    /\ tasks[t].status # "completed"
    /\ tasks' = update_task_status(tasks, t, "completed")
    /\ UNCHANGED <<users, task_offers, next_offer_id, lapsed_upto, disputes,
                   active_timers, main_pc, escrow, timed_out,
                   timeout_streak>>

\* callback approve_task_<id>: a completed task is finished, the executor is
\* paid 90% of the price, the customer's frozen and free balance both lose
\* the price
chat_approve_task(t) ==
    /\ t \in TaskIds
    /\ tasks[t].status = "completed"
    /\ Transfers(escrow, Len(escrow)) < MaxTransfers
    /\ tasks' = update_task_status(tasks, t, "finished")
    /\ LET price == tasks[t].price
           executor_fee == ExecutorPayment(price)
           e == tasks[t].executor_id
           paid == IF e \in UserIds
                   THEN [update_user_balance(users, e, executor_fee, 0)
                         EXCEPT ![e].earned_balance = @ + executor_fee]
                   ELSE users
       IN  /\ users' = update_user_balance(paid, tasks[t].customer_id,
                                           -price, -price)
           /\ escrow' = [escrow EXCEPT ![t].frozen = @ - price,
                                       ![t].payouts = @ + 1]
    /\ UNCHANGED <<task_offers, next_offer_id, lapsed_upto, disputes,
                   active_timers, main_pc, timed_out,
                   timeout_streak>>

\* callbacks dispute_task_<id> (statuses = {completed}) and open_dispute_<id>
\* (statuses = {in_progress, completed}): the owner's dispute row is inserted
\* (disputes.executor_id is NOT NULL) and the task becomes disputed
chat_dispute(c, t, statuses) ==
    /\ t \in TaskIds
    /\ tasks[t].customer_id = c
    /\ tasks[t].status \in statuses
    /\ tasks[t].executor_id # NULL
    /\ Len(disputes) < MaxDisputes
    /\ disputes' = create_dispute(disputes, t, c, tasks[t].executor_id)
    /\ tasks' = update_task_status(tasks, t, "disputed")
    /\ UNCHANGED <<users, task_offers, next_offer_id, lapsed_upto,
                   active_timers, main_pc, escrow, timed_out,
                   timeout_streak>>

chat_dispute_task(c, t) == chat_dispute(c, t, {"completed"})
chat_open_dispute(c, t) == chat_dispute(c, t, {"in_progress", "completed"})

\* ------------------------------------------------------------------- Next
Next ==
    \/ \E c \in Customers, price \in Prices, is_vip \in BOOLEAN,
          tags \in TagChoices, created \in BOOLEAN :
             create_task_final(c, price, is_vip, tags, created)
    \/ \E c \in Customers : manual_search_executors(c)
    \/ manual_search_step
    \/ \E t \in TaskIds : cleanup_suggestion_and_reassign(t)
    \/ \E t \in TaskIds, e \in UserIds : handle_task_offer_accept(t, e)
    \/ \E t \in TaskIds, e \in UserIds : handle_task_offer_decline(t, e)
    \/ decline_redispatch
    \/ \E t \in TaskIds, e \in UserIds : complete_task(e, t)
    \/ \E t \in TaskIds, c \in Customers : approve_task_completion(c, t)
    \/ \E t \in TaskIds, c \in Customers : dispute_task(c, t)
    \/ \E t \in TaskIds, c \in Customers : cancel_task(c, t)
    \/ \E u \in WorkStatusUsers, w \in BOOLEAN :
          set_work_status_handler(u, w)
    \/ \E u \in UserIds, amount \in WithdrawalAmounts :
          process_withdrawal(u, amount)
    \/ Tick
    \/ process_waiting_tasks
    \/ \E d \in DisputeIds, r \in {"customer", "executor"},
          a \in AdminBotCallers :
          resolve_dispute_handler(d, r, a)
    \/ \E t \in TaskIds : chat_complete_task(t)
    \/ \E t \in TaskIds : chat_approve_task(t)
    \/ \E t \in TaskIds, c \in Customers : chat_dispute_task(c, t)
    \/ \E t \in TaskIds, c \in Customers : chat_open_dispute(c, t)

Spec == Init /\ [][Next]_vars
\* the same program started with the larger pool of executors
SpecPool == InitPool /\ [][Next]_vars
\* the same program started with one customer and one executor
SpecSolo == InitSolo /\ [][Next]_vars
\* the program with time passing and the scheduler's loop, which runs every
\* 30 seconds, not starved
SpecFair ==
    InitFair /\ [][Next]_vars /\ WF_vars(Tick) /\ WF_vars(process_waiting_tasks)

\* ================================================================ claims
OffersOf(os, t, st) == {o \in os : o.task_id = t /\ o.status = st}
TransfersOf(t) == escrow[t].payouts + escrow[t].refunds
FrozenAtCreation(t) == calculate_total_cost(tasks[t].price, tasks[t].is_vip)
NewOffers == {o \in task_offers' : \A p \in task_offers : p.offer_id # o.offer_id}
Resolutions == {"customer", "executor"}

\* C1: in every reachable state each task has at most one offer in status
\* pending, whatever dispatches of the task have run
C1_AtMostOnePendingOffer ==
    \A t \in TaskIds : Cardinality(OffersOf(task_offers, t, "pending")) <= 1

\* C2: the amount frozen for a task equals what was frozen at creation (price
\* plus surcharge) until a terminal transfer, and is zero after exactly one
C2_FrozenAttributable ==
    \A t \in TaskIds :
        /\ TransfersOf(t) = 0 => escrow[t].frozen = FrozenAtCreation(t)
        /\ TransfersOf(t) = 1 => escrow[t].frozen = 0

\* C3: at most one terminal transfer (payout or refund) is ever applied for
\* a task
C3_AtMostOneTransfer == \A t \in TaskIds : TransfersOf(t) <= 1

\* C4: resolving a dispute that is already resolved changes neither the
\* dispute rows, nor the tasks, nor any user's balances
C4_SecondResolveRejected ==
    [][\A d \in DisputeIds, r \in Resolutions, a \in Admins :
          (disputes[d].status = "resolved" /\ resolve_dispute_handler(d, r, a))
              => (disputes' = disputes /\ tasks' = tasks /\ users' = users)]_vars

\* C5: a cancel and an accept of the same task leave one of two outcomes: the
\* task canceled, refunded once, with no accepted offer and no executor; or
\* the task in progress for the executor of its one accepted offer, with
\* everything frozen at creation still frozen and no transfer applied
C5_CancelOrAccept ==
    \A t \in TaskIds :
        LET accepted == OffersOf(task_offers, t, "accepted")
        IN  /\ tasks[t].status = "canceled" =>
                /\ accepted = {}
                /\ tasks[t].executor_id = NULL
                /\ escrow[t].refunds = 1 /\ escrow[t].payouts = 0
                /\ escrow[t].frozen = 0
            /\ tasks[t].status = "in_progress" =>
                /\ Cardinality(accepted) = 1
                /\ \A o \in accepted : o.executor_id = tasks[t].executor_id
                /\ TransfersOf(t) = 0
                /\ escrow[t].frozen = FrozenAtCreation(t)

\* C5 witness: the cancel came first while an offer that had not expired was
\* still pending, so the accept that follows finds the task canceled
C5_Witness ==
    \E t \in TaskIds :
        /\ tasks[t].status = "canceled"
        /\ \E o \in OffersOf(task_offers, t, "pending") : ~Lapsed(o, lapsed_upto)

C8_TimeoutResult ==
    [][process_waiting_tasks =>
          \A o \in ExpiredOffers(task_offers, lapsed_upto) :
              /\ \E p \in task_offers' :
                    p.offer_id = o.offer_id /\ p.status = "expired"
              /\ users'[o.executor_id].missed_tasks_count
                     = users[o.executor_id].missed_tasks_count + 1
              /\ tasks'[o.task_id].status = "searching"
              /\ tasks'[o.task_id].executor_id = NULL]_vars

C11_RoundTrip ==
    [][\A t \in TaskIds, e \in UserIds :
          (OffersOf(task_offers, t, "rejected") # {}
               /\ handle_task_offer_accept(t, e))
              => /\ tasks'[t].status = "in_progress"
                 /\ Cardinality(OffersOf(task_offers', t, "accepted")) = 1
                 /\ \A o \in task_offers' :
                       o.task_id = t
                           => o.status \in {"accepted", "rejected", "expired"}]_vars

\* C12: resolving an open dispute in favour of the executor adds the price
\* less the 10% commission to the executor's balance, takes exactly the price
\* from the customer's frozen balance, leaves the customer's balance as it was
\* and makes the task completed
C12_FavorExecutor ==
    [][\A d \in DisputeIds, a \in Admins :
          (disputes[d].status = "open" /\ resolve_dispute_handler(d, "executor", a))
              => LET t == disputes[d].task_id
                     c == disputes[d].customer_id
                     e == disputes[d].executor_id
                     P == tasks[t].price
                 IN  /\ users'[e].balance = users[e].balance + (P - P \div 10)
                     /\ users'[c].frozen_balance = users[c].frozen_balance - P
                     /\ users'[c].balance = users[c].balance
                     /\ tasks'[t].status = "completed"]_vars

\* C12 witness: a dispute was resolved for the executor, who holds the 90 paid
\* for the task of price 100, which is completed
C12_Witness ==
    \E d \in DisputeIds :
        /\ disputes[d].status = "resolved"
        /\ disputes[d].resolution = "executor"
        /\ tasks[disputes[d].task_id].status = "completed"
        /\ tasks[disputes[d].task_id].price = 100
        /\ escrow[disputes[d].task_id].payouts = 1
        /\ escrow[disputes[d].task_id].refunds = 0
        /\ users[disputes[d].executor_id].balance = 90

\* C13: resolving an open dispute in favour of the customer moves everything
\* still frozen for the task from the customer's frozen balance to the
\* customer's balance, changes no other user, and makes the task cancelled
C13_FavorCustomer ==
    [][\A d \in DisputeIds, a \in Admins :
          (disputes[d].status = "open" /\ resolve_dispute_handler(d, "customer", a))
              => LET t == disputes[d].task_id
                     c == disputes[d].customer_id
                 IN  /\ users'[c].balance = users[c].balance + escrow[t].frozen
                     /\ users'[c].frozen_balance
                            = users[c].frozen_balance - escrow[t].frozen
                     /\ \A u \in UserIds \ {c} : users'[u] = users[u]
                     /\ tasks'[t].status = "cancelled"]_vars

\* C14: the owner's approval of a task that awaits it releases what is frozen
\* for the task, adds the price less the commission to the executor's balance
\* and to the executor's earned balance, leaves the customer's balance as it
\* was and makes the task completed
C14_ApproveCompletion ==
    [][\A t \in TaskIds, c \in UserIds :
          approve_task_completion(c, t)
              => LET e == tasks[t].executor_id
                     P == tasks[t].price
                 IN  /\ users'[c].frozen_balance
                            = users[c].frozen_balance - FrozenAtCreation(t)
                     /\ users'[c].balance = users[c].balance
                     /\ users'[e].balance = users[e].balance + (P - P \div 10)
                     /\ users'[e].earned_balance
                            = users[e].earned_balance + (P - P \div 10)
                     /\ tasks'[t].status = "completed"]_vars

C16_CancelClearsOffers ==
    \A t \in TaskIds :
        tasks[t].status = "canceled" =>
            /\ OffersOf(task_offers, t, "pending") = {}
            /\ t \notin DOMAIN active_timers
            /\ escrow[t].refunds = 1

\* C17: the balance of every user is never negative
C17_BalanceNonNegative == \A u \in UserIds : users[u].balance >= 0

\* C18: a task has a pending offer exactly when its status is offered
C18_PendingIffOffered ==
    \A t \in TaskIds :
        (OffersOf(task_offers, t, "pending") # {}) <=> (tasks[t].status = "offered")

\* C19: an accept has no effect on the offers, the tasks or the users when
\* the task is not offered or the caller has no pending offer for it that
\* has not expired
C19_AcceptRejectedUnlessOffered ==
    [][\A t \in TaskIds, e \in UserIds :
          (handle_task_offer_accept(t, e)
               /\ (\/ tasks[t].status # "offered"
                   \/ get_task_offer(task_offers, lapsed_upto, t, e) = {}))
              => (task_offers' = task_offers /\ tasks' = tasks
                      /\ users' = users)]_vars

\* C20: an executor with three offers timed out in a row (no accept and no
\* return to working in between) has a miss counter of 3 and is not working
C20_ThreeTimeouts ==
    \A u \in UserIds :
        timeout_streak[u] >= 3 =>
            /\ users[u].missed_tasks_count = 3
            /\ ~users[u].is_working

\* C21: an executor whose miss counter is at the threshold or above is not
\* working
C21_ThresholdDeactivates ==
    \A u \in UserIds :
        users[u].missed_tasks_count >= MissedTasksThreshold => ~users[u].is_working

C23_ResolvedOfferImmutable ==
    [][\A o \in task_offers :
          o.status \in {"accepted", "rejected", "expired", "cancelled"}
              => o \in task_offers']_vars

\* C23 witness: an executor declined a task, after which another executor
\* accepted the same task, and the rejected offer is still there
C23_Witness ==
    \E o1, o2 \in task_offers :
        /\ o1.task_id = o2.task_id
        /\ o1.offer_id < o2.offer_id
        /\ o1.status = "rejected"
        /\ o2.status = "accepted"

\* C24: a task that is completed or cancelled keeps that status in every
\* later step
C24_TerminalStatusFinal ==
    [][\A t \in TaskIds :
          tasks[t].status \in {"completed", "cancelled", "canceled"}
              => tasks'[t].status = tasks[t].status]_vars

\* C25: the owner of a task that awaits approval and has no dispute can open
\* one: some dispute handler accepts the request
C25_OwnerCanDispute ==
    \A t \in TaskIds :
        (/\ tasks[t].status = "pending_approval"
         /\ main_pc = Idle
         /\ \A d \in DisputeIds : disputes[d].task_id # t
         /\ Len(disputes) < MaxDisputes)
            => ENABLED (\/ dispute_task(tasks[t].customer_id, t)
                        \/ chat_dispute_task(tasks[t].customer_id, t)
                        \/ chat_open_dispute(tasks[t].customer_id, t))

\* C26: a step that creates a task is taken only with an available balance
\* of at least the price plus the VIP surcharge, moves exactly that total
\* from the customer's available to the frozen balance, changes no other
\* user and leaves the new task searching; a submission whose insert fails
\* leaves every balance as it was (no step that changes a user is one)
C26_SubmitFreezes ==
    [][/\ Len(tasks') # Len(tasks) =>
            LET t == Len(tasks')
                c == tasks'[t].customer_id
                total == tasks'[t].price
                         + (IF tasks'[t].is_vip
                            THEN (IF tasks'[t].price <= VIP_TASK_THRESHOLD
                                  THEN VIP_TASK_PRICE_LOW
                                  ELSE VIP_TASK_PRICE_HIGH)
                            ELSE 0)
            IN  /\ Len(tasks') = Len(tasks) + 1
                /\ users[c].balance >= total
                /\ users'[c].balance = users[c].balance - total
                /\ users'[c].frozen_balance = users[c].frozen_balance + total
                /\ tasks'[t].status = "searching"
                /\ \A u \in UserIds \ {c} : users'[u] = users[u]
       /\ users' # users
             => \A c \in Customers, price \in Prices, is_vip \in BOOLEAN,
                   tags \in TagChoices :
                   ~create_task_final(c, price, is_vip, tags, FALSE)]_vars

\* C26 witness: a VIP task was created and its price and surcharge are
\* frozen, the customer's available balance being what is left
C26_Witness ==
    \E t \in TaskIds :
        /\ tasks[t].is_vip
        /\ tasks[t].status = "searching"
        /\ users[tasks[t].customer_id].frozen_balance
               = tasks[t].price + VIP_TASK_PRICE_LOW
        /\ users[tasks[t].customer_id].balance
               = InitialBalance - tasks[t].price - VIP_TASK_PRICE_LOW

\* the search for task t has nobody to offer it to: no candidate passes the
\* filters, or the best one is a near miss
NobodyToOffer(us, ts, t, exclude_executor) ==
    LET cands == real_executors(us, ts, task_offers, lapsed_upto, t,
                                exclude_executor)
    IN  cands = {} \/ near_miss(cands, ts[t].tags)

\* C27: a search for a searching task that finds no candidate, or whose best
\* candidate is a near miss, leaves the task searching and changes no offer,
\* no timer and no user row (balances and miss counters); for the search
\* that follows the creation of a task the user rows are those after the
\* freeze
C27_FruitlessSearch ==
    [][/\ (/\ main_pc.kind = "manual_search"
           /\ manual_search_step
           /\ Head(main_pc.todo) \in TaskIds
           /\ tasks[Head(main_pc.todo)].status = "searching"
           /\ NobodyToOffer(users, tasks, Head(main_pc.todo), NULL))
              => /\ tasks' = tasks
                 /\ UNCHANGED <<task_offers, active_timers, users>>
       /\ (/\ main_pc.kind = "decline"
           /\ decline_redispatch
           /\ tasks[main_pc.task].status = "searching"
           /\ NobodyToOffer(users, tasks, main_pc.task, main_pc.user))
              => /\ tasks' = tasks
                 /\ UNCHANGED <<task_offers, active_timers, users>>
       /\ (/\ Len(tasks') = Len(tasks) + 1
           /\ NobodyToOffer(users', tasks', Len(tasks'), NULL))
              => /\ tasks'[Len(tasks')].status = "searching"
                 /\ UNCHANGED <<task_offers, active_timers>>
                 /\ \A u \in UserIds :
                       users'[u].missed_tasks_count = users[u].missed_tasks_count
      ]_vars

\* C27 witness: after the only eligible executor declined a VIP task the new
\* search found nobody, and the task is searching with no pending offer and
\* no timer
C27_Witness ==
    \E t \in TaskIds :
        /\ main_pc = Idle
        /\ tasks[t].status = "searching"
        /\ tasks[t].is_vip
        /\ OffersOf(task_offers, t, "rejected") # {}
        /\ OffersOf(task_offers, t, "pending") = {}
        /\ t \notin DOMAIN active_timers
        /\ real_executors(users, tasks, task_offers, lapsed_upto, t, NULL) = {}

\* C28: for a searching task with candidates, the search is put off exactly
\* when the highest tag coverage among the candidates is at least 90% and
\* below 100%; with a candidate who covers every tag somebody is selected
C28_DefersOnHighestCoverage ==
    \A t \in TaskIds :
        LET cands == real_executors(users, tasks, task_offers, lapsed_upto,
                                    t, NULL)
            coverage == {match_percentage(tasks[t].tags, u) : u \in cands}
            highest == CHOOSE m \in coverage : \A n \in coverage : n <= m
        IN  (tasks[t].status = "searching" /\ cands # {})
                => ((selectable_executors(users, tasks, task_offers,
                                          lapsed_upto, t, NULL) = {})
                        <=> (90 <= highest /\ highest < 100))

\* C29: the executor of every offer a step creates is, in the state the step
\* starts from, working, not blocked, not the owner of the task, neither the
\* executor whose decline of the task started the search nor one who rejected
\* the task before, rated at least the task's minimum (the VIP minimum for a VIP
\* task), and shares a tag with the task
C29_OfferedExecutorEligible ==
    [][\A o \in NewOffers :
          LET e == o.executor_id
              task == tasks'[o.task_id]
          IN  /\ users[e].is_working
              /\ ~IsBlocked(e)
              /\ e # task.customer_id
              /\ (main_pc.kind = "decline" /\ main_pc.task = o.task_id)
                    => e # main_pc.user
              /\ \A p \in OffersOf(task_offers, o.task_id, "rejected") :
                    p.executor_id # e
              /\ Rating(e) >= (IF task.is_vip THEN VIP_EXECUTOR_MIN_RATING
                                ELSE 0)
              /\ task.tags \cap ExecutorTags(e) # {}]_vars

\* C29 witness: a VIP task is offered to an executor while another working
\* executor holds its tags but is rated below the VIP minimum
C29_Witness ==
    \E o \in task_offers :
        /\ o.status = "pending"
        /\ tasks[o.task_id].is_vip
        /\ \E u \in UserIds \ {o.executor_id} :
              /\ users[u].is_working
              /\ ~IsBlocked(u)
              /\ tasks[o.task_id].tags \subseteq ExecutorTags(u)
              /\ Rating(u) < VIP_EXECUTOR_MIN_RATING

\* C30: a resolution requested by a user who is not an admin changes no
\* dispute, no task and no user row
C30_NonAdminRejected ==
    [][\A d \in DisputeIds, r \in {"customer", "executor"},
          a \in AdminBotCallers \ Admins :
          resolve_dispute_handler(d, r, a)
              => (disputes' = disputes /\ tasks' = tasks /\ users' = users)]_vars

\* C31: the status of every task is one of searching, offered, in_progress,
\* pending_approval, completed, disputed, cancelled
C31_StatusInEnum ==
    \A t \in TaskIds :
        tasks[t].status \in {"searching", "offered", "in_progress",
                             "pending_approval", "completed", "disputed",
                             "cancelled"}

\* C32: for every pending offer that has not expired the timer registry
\* holds an entry for the offer's task, and the entry is the timer started
\* for the offer's executor
C32_TimerTracksOffer ==
    \A o \in task_offers :
        (o.status = "pending" /\ ~Lapsed(o, lapsed_upto))
            => /\ o.task_id \in DOMAIN active_timers
               /\ active_timers[o.task_id] = o.executor_id

C34_FailedCreditChangesNothing ==
    [][\A t \in TaskIds :
          (/\ tasks[t].status = "pending_approval"
           /\ approve_task_completion(tasks[t].customer_id, t)
           /\ users'[tasks[t].executor_id].balance
                  = users[tasks[t].executor_id].balance)
              => /\ users'[tasks[t].customer_id].frozen_balance
                        = users[tasks[t].customer_id].frozen_balance
                 /\ tasks'[t].status = tasks[t].status]_vars

\* C35: a payout for a task (the owner's approval in either bot, or a dispute
\* resolved for the executor) takes from the customer's balance and frozen
\* balance together exactly what the executor is credited plus what the
\* platform keeps: the commission of a tenth of the price, with or without
\* the VIP surcharge
C35_PayoutConserves ==
    [][\A t \in TaskIds :
          (\/ chat_approve_task(t)
           \/ approve_task_completion(tasks[t].customer_id, t)
           \/ \E d \in DisputeIds, a \in AdminBotCallers :
                 /\ disputes[d].task_id = t
                 /\ resolve_dispute_handler(d, "executor", a))
              => LET c == tasks[t].customer_id
                     e == tasks[t].executor_id
                     P == tasks[t].price
                     decrease ==
                         (users[c].balance + users[c].frozen_balance)
                             - (users'[c].balance + users'[c].frozen_balance)
                     credit == users'[e].balance - users[e].balance
                 IN  decrease - credit
                         \in {P \div 10,
                              P \div 10 + (FrozenAtCreation(t) - P)}]_vars

\* C36: an executor's miss counter counts every miss since it was last reset:
\* it is never below the number of the executor's offers that timed out since
\* then
C36_CounterCountsMisses ==
    \A u \in UserIds : users[u].missed_tasks_count >= timeout_streak[u]

\* C37: no executor holds more than one pending offer that has not expired,
\* counting the offers of all tasks
C37_OneOpenOfferPerExecutor ==
    \A e \in UserIds :
        Cardinality({o \in task_offers :
                        /\ o.executor_id = e
                        /\ o.status = "pending"
                        /\ ~Lapsed(o, lapsed_upto)}) <= 1

\* a second task that the executor matches was created while the executor
\* held an open offer for the first: its search offered it to nobody
C37_Witness ==
    \E t1 \in TaskIds, t2 \in TaskIds :
        /\ t1 < t2
        /\ \E o \in task_offers :
              /\ o.task_id = t1
              /\ o.offer_id = 1
              /\ o.executor_id = Executor1
              /\ o.status = "pending"
              /\ ~Lapsed(o, lapsed_upto)
        /\ tasks[t2].status = "searching"
        /\ tasks[t2].tags = {1}
        /\ match_percentage(tasks[t2].tags, Executor1) = 100
        /\ \A o \in task_offers : o.task_id # t2
        /\ next_offer_id = 2

C39_SelectedWithinBand ==
    [][\A o \in NewOffers :
          LET task_tags == tasks'[o.task_id].tags
              exclude_executor ==
                  IF main_pc.kind = "decline" /\ main_pc.task = o.task_id
                  THEN main_pc.user ELSE NULL
              eligible == real_executors(users, tasks', task_offers,
                                         lapsed_upto, o.task_id,
                                         exclude_executor)
          IN  \A u \in eligible :
                 100 * calculate_executor_priority(o.executor_id, task_tags)
                    >= (100 - 20) * calculate_executor_priority(u, task_tags)]_vars
====
